---- MODULE Spec2Model ----
(***************************************************************************)
(* Model of flow (src/main.rs): a river-status client.  The registry       *)
(* handler binds the status manager, a seat and an output; the seat-status *)
(* and output-status handlers fold events into State; the main loop blocks *)
(* in blocking_dispatch until its gate opens, converts State to Metadata   *)
(* and prints it.                                                          *)
(***************************************************************************)
EXTENDS Integers, Sequences, FiniteSets, TLC

\* ---------------------------------------------------------------- bounds
MaxGlobals == 3      \* registry advertisements dispatched in one run
MaxBatch   == 2      \* events dispatched by one blocking_dispatch round
MaxEmit    == 2      \* lines printed in one run
MaxPending == 2      \* field-update events counted between two lines

\* ------------------------------------------------------- program constants
BitWidth == 32       \* BitVec<u32>: view_bits of a u32 has 32 bits
BindVersion == 4     \* version passed to registry.bind

\* ---------------------------------------------------------- input domains
Interfaces == {"wl_output", "wl_seat", "zriver_status_manager_v1", "wl_compositor"}
Titles     == {"", "foot"}
Modes      == {"normal"}
Layouts    == {"tile", "monocle"}
\* a u32 is written as its two 16-bit halves, value = hi * 65536 + lo
HalfWidth  == 16
U32(hi, lo) == [ hi |-> hi, lo |-> lo ]
Masks      == { U32(0, 1), U32(32768, 770) }   \* bit 0;  bits 1, 8, 9 and 31
TagCounts  == {9}                      \* --tags, its default value

\* Option<T>: None is the empty sequence, Some(x) the one-element sequence
None == << >>
Some(x) == << x >>
IsNone(o) == o = None
IsSome(o) == o # None
Unwrap(o) == o[1]

VARIABLES
    state,        \* struct State
    watch,        \* cli.watch
    tags,         \* cli.tags
    pc,           \* position of main: "gate", "dispatch", "done", "panic", "failed"
    inRound,      \* events dispatched so far by the running blocking_dispatch
    requests,     \* requests issued on the status manager, in order
    flushed,      \* how many of them have been flushed to the compositor
    advertised,   \* interfaces of the globals dispatched so far (name = index)
    connOk,       \* FALSE once blocking_dispatch has returned an error
    emitted,      \* number of lines printed on stdout
    lastOut,      \* the last line printed (None before the first)
    sent,         \* payload of the latest event of each kind that was dispatched
    pendingField  \* field-update events dispatched since the last line (saturating)

vars == << state, watch, tags, pc, inRound, requests, flushed, advertised,
           connOk, emitted, lastOut, sent, pendingField >>

\* ------------------------------------------------------------ struct State
StateDefault ==
    [ status_manager |-> None, seat |-> None, output |-> None,
      changed |-> FALSE,
      title |-> None, mode |-> None, layout |-> None,
      focused |-> None, urgent |-> None ]

\* u32::view_bits::<Lsb0>().to_bitvec(): 32 booleans, index 1 is bit 0
BitOf(mask, b) ==
    IF b < HalfWidth THEN (mask.lo \div (2 ^ b)) % 2 = 1
    ELSE (mask.hi \div (2 ^ (b - HalfWidth))) % 2 = 1
\* mutant: the bits are read most-significant first (Msb0)
ViewBits_Msb0(mask) == [ i \in 1..BitWidth |-> BitOf(mask, BitWidth - i) ]

ViewBits(mask) == [ i \in 1..BitWidth |-> BitOf(mask, i - 1) ]

\* mutant: one element too many is cut off
Truncate_OffByOne(v, n) == IF n >= Len(v) THEN v ELSE SubSeq(v, 1, n - 1)

\* Vec::truncate(n): keeps the first n elements, no effect when n >= len
Truncate(v, n) == IF n >= Len(v) THEN v ELSE SubSeq(v, 1, n)

\* impl TryInto<Metadata> for State
TryInto(s) ==
    IF IsNone(s.title) THEN [ ok |-> FALSE, err |-> "MissingTitle" ]
    ELSE IF IsNone(s.mode) THEN [ ok |-> FALSE, err |-> "MissingMode" ]
    ELSE IF IsNone(s.urgent) THEN [ ok |-> FALSE, err |-> "MissingUrgent" ]
    ELSE IF IsNone(s.focused) THEN [ ok |-> FALSE, err |-> "MissingFocused" ]
    ELSE [ ok |-> TRUE,
           val |-> [ title |-> Unwrap(s.title),
                     mode |-> Unwrap(s.mode),
                     urgent |-> Unwrap(s.urgent),
                     focused |-> Unwrap(s.focused),
                     layout |-> s.layout ] ]

\* main, lines 227-228: both tag vectors are cut to cli.tags
TruncateTags(md, n) ==
    [ md EXCEPT !.urgent = Truncate(@, n), !.focused = Truncate(@, n) ]

\* ------------------------------------------------------------- the events
OutputStatusEvents ==
         [ ev : {"FocusedTags"}, tags : Masks ]
    \cup [ ev : {"UrgentTags"}, tags : Masks ]
    \cup [ ev : {"LayoutName"}, name : Layouts ]
    \cup [ ev : {"LayoutNameClear"} ]
    \cup [ ev : {"ViewTags"} ]

SeatStatusEvents ==
         [ ev : {"FocusedView"}, title : Titles ]
    \cup [ ev : {"Mode"}, name : Modes ]
    \cup [ ev : {"FocusedOutput"} ]

RegistryEvents ==
         [ ev : {"Global"}, interface : Interfaces ]
    \cup [ ev : {"GlobalRemove"} ]

FieldEvents == {"FocusedTags", "UrgentTags", "LayoutName", "LayoutNameClear",
                "FocusedView", "Mode"}

\* mutant: the two tag events are stored in each other's field
OutputStatusEvent_TagsSwapped(s, e) ==
    LET s1 == CASE e.ev = "FocusedTags" -> [ s EXCEPT !.urgent = Some(ViewBits(e.tags)) ]
                [] e.ev = "UrgentTags" -> [ s EXCEPT !.focused = Some(ViewBits(e.tags)) ]
                [] e.ev = "LayoutName" -> [ s EXCEPT !.layout = Some(e.name) ]
                [] e.ev = "LayoutNameClear" -> [ s EXCEPT !.layout = None ]
                [] OTHER -> s
    IN  [ s1 EXCEPT !.changed = TRUE ]

\* mutant: LayoutNameClear stores an empty name instead of None
OutputStatusEvent_ClearToEmpty(s, e) ==
    LET s1 == CASE e.ev = "FocusedTags" -> [ s EXCEPT !.focused = Some(ViewBits(e.tags)) ]
                [] e.ev = "UrgentTags" -> [ s EXCEPT !.urgent = Some(ViewBits(e.tags)) ]
                [] e.ev = "LayoutName" -> [ s EXCEPT !.layout = Some(e.name) ]
                [] e.ev = "LayoutNameClear" -> [ s EXCEPT !.layout = Some("") ]
                [] OTHER -> s
    IN  [ s1 EXCEPT !.changed = TRUE ]

\* mutant: the dirty flag is raised only when the stored value changes
OutputStatusEvent_IfDiffers(s, e) ==
    LET s1 == CASE e.ev = "FocusedTags" -> [ s EXCEPT !.focused = Some(ViewBits(e.tags)) ]
                [] e.ev = "UrgentTags" -> [ s EXCEPT !.urgent = Some(ViewBits(e.tags)) ]
                [] e.ev = "LayoutName" -> [ s EXCEPT !.layout = Some(e.name) ]
                [] e.ev = "LayoutNameClear" -> [ s EXCEPT !.layout = None ]
                [] OTHER -> s
    IN  [ s1 EXCEPT !.changed = s.changed \/ s1 # s ]

\* impl Dispatch<ZriverOutputStatusV1, ()> for State
OutputStatusEvent(s, e) ==
    LET s1 == CASE e.ev = "FocusedTags" -> [ s EXCEPT !.focused = Some(ViewBits(e.tags)) ]
                [] e.ev = "UrgentTags" -> [ s EXCEPT !.urgent = Some(ViewBits(e.tags)) ]
                [] e.ev = "LayoutName" -> [ s EXCEPT !.layout = Some(e.name) ]
                [] e.ev = "LayoutNameClear" -> [ s EXCEPT !.layout = None ]
                [] OTHER -> s
    IN  [ s1 EXCEPT !.changed = TRUE ]

\* mutant: the dirty flag is raised only when the stored value changes
SeatStatusEvent_IfDiffers(s, e) ==
    LET s1 == CASE e.ev = "FocusedView" -> [ s EXCEPT !.title = Some(e.title) ]
                [] e.ev = "Mode" -> [ s EXCEPT !.mode = Some(e.name) ]
                [] OTHER -> s
    IN  [ s1 EXCEPT !.changed = s.changed \/ s1 # s ]

\* mutant: an empty title is stored as no title
SeatStatusEvent_EmptyUnsets(s, e) ==
    LET s1 == CASE e.ev = "FocusedView" ->
                     [ s EXCEPT !.title = IF e.title = "" THEN None ELSE Some(e.title) ]
                [] e.ev = "Mode" -> [ s EXCEPT !.mode = Some(e.name) ]
                [] OTHER -> s
    IN  [ s1 EXCEPT !.changed = TRUE ]

\* impl Dispatch<ZriverSeatStatusV1, ()> for State
SeatStatusEvent(s, e) ==
    LET s1 == CASE e.ev = "FocusedView" -> [ s EXCEPT !.title = Some(e.title) ]
                [] e.ev = "Mode" -> [ s EXCEPT !.mode = Some(e.name) ]
                [] OTHER -> s
    IN  [ s1 EXCEPT !.changed = TRUE ]

SeatStatusReq(manager, seat) ==
    [ req |-> "get_river_seat_status", manager |-> manager, target |-> seat ]
OutputStatusReq(manager, output) ==
    [ req |-> "get_river_output_status", manager |-> manager, target |-> output ]

\* mutant: the manager arm also requests the output-status of a bound output
RegistryEvent_Symmetric(s, e, name) ==
    IF e.ev # "Global" THEN [ state |-> s, reqs |-> << >> ]
    ELSE CASE e.interface = "wl_output" ->
                [ state |-> [ s EXCEPT !.output = Some(name) ],
                  reqs |-> IF IsSome(s.status_manager)
                           THEN << OutputStatusReq(Unwrap(s.status_manager), name) >>
                           ELSE << >> ]
           [] e.interface = "wl_seat" ->
                [ state |-> [ s EXCEPT !.seat = Some(name) ],
                  reqs |-> IF IsSome(s.status_manager)
                           THEN << SeatStatusReq(Unwrap(s.status_manager), name) >>
                           ELSE << >> ]
           [] e.interface = "zriver_status_manager_v1" ->
                [ state |-> [ s EXCEPT !.status_manager = Some(name) ],
                  reqs |-> (IF IsSome(s.seat)
                            THEN << SeatStatusReq(name, Unwrap(s.seat)) >>
                            ELSE << >>)
                           \o (IF IsSome(s.output)
                               THEN << OutputStatusReq(name, Unwrap(s.output)) >>
                               ELSE << >>) ]
           [] OTHER -> [ state |-> s, reqs |-> << >> ]

\* mutant: the wl_output arm also requests the seat-status of the bound seat
RegistryEvent_SeatAgain(s, e, name) ==
    IF e.ev # "Global" THEN [ state |-> s, reqs |-> << >> ]
    ELSE CASE e.interface = "wl_output" ->
                [ state |-> [ s EXCEPT !.output = Some(name) ],
                  reqs |-> IF IsSome(s.status_manager)
                           THEN << OutputStatusReq(Unwrap(s.status_manager), name) >>
                                \o (IF IsSome(s.seat)
                                    THEN << SeatStatusReq(Unwrap(s.status_manager),
                                                          Unwrap(s.seat)) >>
                                    ELSE << >>)
                           ELSE << >> ]
           [] e.interface = "wl_seat" ->
                [ state |-> [ s EXCEPT !.seat = Some(name) ],
                  reqs |-> IF IsSome(s.status_manager)
                           THEN << SeatStatusReq(Unwrap(s.status_manager), name) >>
                           ELSE << >> ]
           [] e.interface = "zriver_status_manager_v1" ->
                [ state |-> [ s EXCEPT !.status_manager = Some(name) ],
                  reqs |-> IF IsSome(s.seat)
                           THEN << SeatStatusReq(name, Unwrap(s.seat)) >>
                           ELSE << >> ]
           [] OTHER -> [ state |-> s, reqs |-> << >> ]

\* mutant: the wl_seat arm does not store the seat it bound
RegistryEvent_SeatNotStored(s, e, name) ==
    IF e.ev # "Global" THEN [ state |-> s, reqs |-> << >> ]
    ELSE CASE e.interface = "wl_output" ->
                [ state |-> [ s EXCEPT !.output = Some(name) ],
                  reqs |-> IF IsSome(s.status_manager)
                           THEN << OutputStatusReq(Unwrap(s.status_manager), name) >>
                           ELSE << >> ]
           [] e.interface = "wl_seat" ->
                [ state |-> s,
                  reqs |-> IF IsSome(s.status_manager)
                           THEN << SeatStatusReq(Unwrap(s.status_manager), name) >>
                           ELSE << >> ]
           [] e.interface = "zriver_status_manager_v1" ->
                [ state |-> [ s EXCEPT !.status_manager = Some(name) ],
                  reqs |-> IF IsSome(s.seat)
                           THEN << SeatStatusReq(name, Unwrap(s.seat)) >>
                           ELSE << >> ]
           [] OTHER -> [ state |-> s, reqs |-> << >> ]

\* impl Dispatch<wl_registry::WlRegistry, ()> for State; name is the id of
\* the advertised global, the handle bound to it is identified by that id.
\* Yields the new State and the requests issued on the status manager.
RegistryEvent(s, e, name) ==
    IF e.ev # "Global" THEN [ state |-> s, reqs |-> << >> ]
    ELSE CASE e.interface = "wl_output" ->
                [ state |-> [ s EXCEPT !.output = Some(name) ],
                  reqs |-> IF IsSome(s.status_manager)
                           THEN << OutputStatusReq(Unwrap(s.status_manager), name) >>
                           ELSE << >> ]
           [] e.interface = "wl_seat" ->
                [ state |-> [ s EXCEPT !.seat = Some(name) ],
                  reqs |-> IF IsSome(s.status_manager)
                           THEN << SeatStatusReq(Unwrap(s.status_manager), name) >>
                           ELSE << >> ]
           [] e.interface = "zriver_status_manager_v1" ->
                [ state |-> [ s EXCEPT !.status_manager = Some(name) ],
                  reqs |-> IF IsSome(s.seat)
                           THEN << SeatStatusReq(name, Unwrap(s.seat)) >>
                           ELSE << >> ]
           [] OTHER -> [ state |-> s, reqs |-> << >> ]

\* mutant: the loop does not wait for the title
WhileCond_NoTitle(s) ==
    \/ IsNone(s.mode)
    \/ IsNone(s.layout)
    \/ IsNone(s.focused)
    \/ IsNone(s.urgent)
    \/ ~s.changed

\* mutant: the loop does not wait for the layout
WhileCond_NoLayout(s) ==
    \/ IsNone(s.title)
    \/ IsNone(s.mode)
    \/ IsNone(s.focused)
    \/ IsNone(s.urgent)
    \/ ~s.changed

\* main, lines 216-221: the condition of the inner while loop
WhileCond(s) ==
    \/ IsNone(s.title)
    \/ IsNone(s.mode)
    \/ IsNone(s.layout)
    \/ IsNone(s.focused)
    \/ IsNone(s.urgent)
    \/ ~s.changed

\* ------------------------------------------------------------------- Init
SentDefault ==
    [ title |-> None, mode |-> None, focused |-> None, urgent |-> None,
      layout |-> None, cleared |-> FALSE ]

Init ==
    /\ state = [ StateDefault EXCEPT !.changed = TRUE ]
    /\ watch \in BOOLEAN
    /\ tags \in TagCounts
    /\ pc = "gate"
    /\ inRound = 0
    /\ requests = << >>
    /\ flushed = 0
    /\ advertised = << >>
    /\ connOk = TRUE
    /\ emitted = 0
    /\ lastOut = None
    /\ sent = SentDefault
    /\ pendingField = 0

\* ---------------------------------------------------------------- actions
\* event_queue.blocking_dispatch is entered: requests are flushed, then the
\* call reads and dispatches what the compositor sent
BlockingDispatch ==
    /\ pc = "gate"
    /\ WhileCond(state)
    /\ pc' = "dispatch"
    /\ inRound' = 0
    /\ flushed' = Len(requests)
    /\ UNCHANGED << state, watch, tags, requests, advertised, connOk, emitted,
                    lastOut, sent, pendingField >>

\* a status object exists on the compositor's side once its request was flushed
HasObject(req) == \E i \in 1..flushed : requests[i].req = req

Bump(n) == IF n < MaxPending THEN n + 1 ELSE MaxPending

Delivered ==
    /\ pc = "dispatch"
    /\ inRound < MaxBatch
    /\ inRound' = inRound + 1
    /\ UNCHANGED << watch, tags, pc, flushed, connOk, emitted, lastOut >>

\* one registry event is dispatched to the registry handler
DispatchRegistry ==
    /\ Delivered
    /\ \E e \in RegistryEvents :
         /\ e.ev = "Global" => Len(advertised) < MaxGlobals
         /\ e.ev = "GlobalRemove" => Len(advertised) > 0
         /\ LET name == Len(advertised) + 1
                r == RegistryEvent(state, e, name)
            IN  /\ state' = r.state
                /\ requests' = requests \o r.reqs
                /\ advertised' = IF e.ev = "Global"
                                 THEN Append(advertised, e.interface)
                                 ELSE advertised
    /\ UNCHANGED << sent, pendingField >>

Record(e) ==
    CASE e.ev = "FocusedTags" -> [ sent EXCEPT !.focused = Some(e.tags) ]
      [] e.ev = "UrgentTags" -> [ sent EXCEPT !.urgent = Some(e.tags) ]
      [] e.ev = "LayoutName" -> [ sent EXCEPT !.layout = Some(e.name), !.cleared = FALSE ]
      [] e.ev = "LayoutNameClear" -> [ sent EXCEPT !.cleared = IsSome(sent.layout) \/ @,
                                                   !.layout = None ]
      [] e.ev = "FocusedView" -> [ sent EXCEPT !.title = Some(e.title) ]
      [] e.ev = "Mode" -> [ sent EXCEPT !.mode = Some(e.name) ]
      [] OTHER -> sent

\* the output-status event e is dispatched to the output-status handler
DeliverOutputStatus(e) ==
    /\ Delivered
    /\ HasObject("get_river_output_status")
    /\ state' = OutputStatusEvent(state, e)
    /\ sent' = Record(e)
    /\ pendingField' = IF e.ev \in FieldEvents THEN Bump(pendingField)
                       ELSE pendingField
    /\ UNCHANGED << requests, advertised >>

DispatchOutputStatus == \E e \in OutputStatusEvents : DeliverOutputStatus(e)

\* the seat-status event e is dispatched to the seat-status handler
DeliverSeatStatus(e) ==
    /\ Delivered
    /\ HasObject("get_river_seat_status")
    /\ state' = SeatStatusEvent(state, e)
    /\ sent' = Record(e)
    /\ pendingField' = IF e.ev \in FieldEvents THEN Bump(pendingField)
                       ELSE pendingField
    /\ UNCHANGED << requests, advertised >>

DispatchSeatStatus == \E e \in SeatStatusEvents : DeliverSeatStatus(e)

\* delegate_noop!(State: ignore ...): an event of the status manager, of a
\* bound wl_output or of a bound wl_seat is dispatched and dropped
DispatchIgnored ==
    /\ Delivered
    /\ IsSome(state.status_manager) \/ IsSome(state.seat) \/ IsSome(state.output)
    /\ UNCHANGED << state, requests, advertised, sent, pendingField >>

\* blocking_dispatch returns Ok: back to the condition of the while loop
DispatchReturn ==
    /\ pc = "dispatch"
    /\ pc' = "gate"
    /\ inRound' = 0
    /\ UNCHANGED << state, watch, tags, requests, flushed, advertised, connOk,
                    emitted, lastOut, sent, pendingField >>

\* mutant: the error is dropped and the loop goes on
DispatchError_Ignored ==
    /\ pc = "dispatch"
    /\ pc' = "gate"
    /\ connOk' = FALSE
    /\ inRound' = 0
    /\ UNCHANGED << state, watch, tags, requests, flushed, advertised,
                    emitted, lastOut, sent, pendingField >>

\* blocking_dispatch returns Err: unwrap() panics
DispatchError ==
    /\ pc = "dispatch"
    /\ pc' = "failed"
    /\ connOk' = FALSE
    /\ inRound' = 0
    /\ UNCHANGED << state, watch, tags, requests, flushed, advertised,
                    emitted, lastOut, sent, pendingField >>

\* mutant: the loop never breaks
AfterPrint_NoBreak(w) == "gate"

\* main, lines 235-237: one-shot mode leaves the loop, watch mode repeats it
AfterPrint(w) == IF ~w THEN "done" ELSE "gate"

\* mutant: the dirty flag is left set after printing
ClearChanged_Kept(s) == s

\* main, line 232: state.changed = false
ClearChanged(s) == [ s EXCEPT !.changed = FALSE ]

\* mutant: the line is also printed from inside a dispatch round
AtLoopHead_OrInRound == pc \in {"gate", "dispatch"}

\* main is between two blocking_dispatch calls, at the while condition
AtLoopHead == pc = "gate"

\* main, lines 226-237: the body of the outer loop after the while loop
Publish ==
    /\ AtLoopHead
    /\ ~WhileCond(state)
    /\ emitted < MaxEmit
    /\ LET r == TryInto(state)
       IN  IF ~r.ok
           THEN /\ pc' = "panic"
                /\ UNCHANGED << state, emitted, lastOut, pendingField >>
           ELSE /\ IF state.changed
                   THEN /\ lastOut' = Some(TruncateTags(r.val, tags))
                        /\ emitted' = emitted + 1
                        /\ state' = ClearChanged(state)
                        /\ pendingField' = 0
                   ELSE UNCHANGED << state, emitted, lastOut, pendingField >>
                /\ pc' = AfterPrint(watch)
    /\ UNCHANGED << watch, tags, inRound, requests, flushed, advertised, connOk, sent >>

Next ==
    \/ BlockingDispatch
    \/ DispatchRegistry
    \/ DispatchOutputStatus
    \/ DispatchSeatStatus
    \/ DispatchIgnored
    \/ DispatchReturn
    \/ DispatchError
    \/ Publish

Spec == Init /\ [][Next]_vars

TypeOK ==
    /\ pc \in {"gate", "dispatch", "done", "panic", "failed"}
    /\ inRound \in 0..MaxBatch
    /\ emitted \in 0..MaxEmit

\* ------------------------------------------- the projection on its own
\* The tag masks are drawn from a wider set and --tags from its whole
\* range; the run starts after discovery, with title, mode and layout
\* received, and goes on with tag events and the first line.
WideMasks ==
    { U32(0, 0), U32(0, 1), U32(0, 256), U32(0, 512), U32(0, 32768),
      U32(1, 0), U32(32768, 0), U32(65535, 65535), U32(32768, 770),
      U32(43690, 21845) }
AllTagCounts == 1..BitWidth

WideTagEvents ==
    [ ev : {"FocusedTags"}, tags : WideMasks ] \cup [ ev : {"UrgentTags"}, tags : WideMasks ]

ProjInit ==
    /\ state = [ status_manager |-> Some(1), seat |-> Some(2), output |-> Some(3),
                 changed |-> TRUE,
                 title |-> Some("foot"), mode |-> Some("normal"),
                 layout |-> Some("tile"),
                 focused |-> None, urgent |-> None ]
    /\ watch = FALSE
    /\ tags \in AllTagCounts
    /\ pc = "gate"
    /\ inRound = 0
    /\ requests = << SeatStatusReq(1, 2), OutputStatusReq(1, 3) >>
    /\ flushed = 2
    /\ advertised = << "zriver_status_manager_v1", "wl_seat", "wl_output" >>
    /\ connOk = TRUE
    /\ emitted = 0
    /\ lastOut = None
    /\ sent = [ title |-> Some("foot"), mode |-> Some("normal"), focused |-> None,
                urgent |-> None, layout |-> Some("tile"), cleared |-> FALSE ]
    /\ pendingField = Bump(Bump(Bump(0)))

DispatchTags == \E e \in WideTagEvents : DeliverOutputStatus(e)

ProjNext ==
    \/ BlockingDispatch
    \/ DispatchTags
    \/ DispatchReturn
    \/ Publish

ProjSpec == ProjInit /\ [][ProjNext]_vars

\* ================================================================ claims
Line == Unwrap(lastOut)

CountAdvertised(interface) ==
    Cardinality({ i \in DOMAIN advertised : advertised[i] = interface })
CountRequests(req) ==
    Cardinality({ i \in DOMAIN requests : requests[i].req = req })

OneOfEach ==
    /\ CountAdvertised("zriver_status_manager_v1") = 1
    /\ CountAdvertised("wl_seat") = 1
    /\ CountAdvertised("wl_output") = 1

\* C1: whenever exactly one status manager, one wl_seat and one wl_output
\* have been advertised, in whatever order, all three handles are bound and
\* exactly one seat-status and one output-status object have been requested.
C1_AllOrdersConverge ==
    OneOfEach =>
        /\ IsSome(state.status_manager) /\ IsSome(state.seat) /\ IsSome(state.output)
        /\ CountRequests("get_river_seat_status") = 1
        /\ CountRequests("get_river_output_status") = 1

\* C2: the State -> Metadata conversion never fails: main never panics on a
\* Missing* error, and whenever the while loop is left the conversion is Ok.
C2_ProjectorNeverFails ==
    /\ pc # "panic"
    /\ (pc = "gate" /\ ~WhileCond(state)) => TryInto(state).ok

C2_Witness == emitted >= 1 /\ IsSome(lastOut) /\ pc # "panic"

Ready(s) == IsSome(s.title) /\ IsSome(s.mode) /\ IsSome(s.focused) /\ IsSome(s.urgent)

\* C3: at the head of the loop another dispatch round is performed exactly
\* when the aggregate is not ready or not dirty; the layout plays no part.
C3_GateIgnoresLayout ==
    pc = "gate" => (WhileCond(state) <=> (~Ready(state) \/ ~state.changed))

\* C4: in one-shot mode at most one line is printed, and the step that
\* prints it ends the loop, so no dispatch round follows it.
C4_OneShot ==
    ~watch => /\ emitted <= 1
              /\ emitted = 1 => pc = "done"

C4_Witness == ~watch /\ emitted = 1 /\ pc = "done"

\* C5 as stated: in watch mode, after the first line, every dispatched
\* field-update event produces one further line of its own: no two such
\* events share a line, and none is left unpublished when the loop blocks.
C5_OneLinePerEvent ==
    (watch /\ emitted >= 1) =>
        /\ pendingField <= 1
        /\ (pc = "gate" /\ WhileCond(state)) => pendingField = 0

\* C5 amended: in watch mode, after the first line, when the loop is at its
\* head with at least one field-update event dispatched since the last line
\* and the stored layout set, its next step prints exactly one line, however
\* many events were dispatched; while the stored layout is None its next
\* step prints nothing; and no step prints more than one line.
C5_OneLinePerRound ==
    [][ (watch /\ emitted >= 1 /\ pc = "gate") =>
            /\ (pendingField > 0 /\ IsSome(state.layout)) =>
                   (emitted' = emitted + 1 /\ pendingField' = 0 /\ pc' = "gate")
            /\ IsNone(state.layout) => emitted' = emitted
            /\ emitted' \in {emitted, emitted + 1} ]_vars

C5_Witness == watch /\ emitted >= 2 /\ pendingField = 0

\* C6: the focused and urgent arrays of a printed line have exactly --tags
\* elements, and element i (from 0) is true iff bit i of the mask of the
\* latest FocusedTags (UrgentTags) event is set.
C6_TagArrays ==
    IsSome(lastOut) =>
        /\ Len(Line.focused) = tags
        /\ Len(Line.urgent) = tags
        /\ \A i \in 0..(tags - 1) :
             /\ Line.focused[i + 1] = BitOf(Unwrap(sent.focused), i)
             /\ Line.urgent[i + 1] = BitOf(Unwrap(sent.urgent), i)

C6_Witness ==
    /\ IsSome(lastOut)
    /\ tags = 9
    /\ sent.focused = Some(U32(0, 1))
    /\ Line.focused = << TRUE, FALSE, FALSE, FALSE, FALSE, FALSE, FALSE, FALSE, FALSE >>

\* C7: a printed line carries the latest values: title and mode of the
\* latest FocusedView and Mode events, the tag arrays of the latest
\* FocusedTags and UrgentTags masks, the name of the latest LayoutName event.
C7_LatestValues ==
    (IsSome(lastOut) /\ pendingField = 0) =>
        /\ Some(Line.title) = sent.title
        /\ Some(Line.mode) = sent.mode
        /\ Line.layout = sent.layout
        /\ \A i \in 1..tags :
             /\ Line.focused[i] = BitOf(Unwrap(sent.focused), i - 1)
             /\ Line.urgent[i] = BitOf(Unwrap(sent.urgent), i - 1)

C7_Witness == emitted >= 2 /\ pendingField = 0 /\ pc = "gate"

Projection(s, n) == TruncateTags(TryInto(s).val, n)

\* C8: after a LayoutName event followed by LayoutNameClear (and no later
\* LayoutName) the projected layout is None, and the projection equals that
\* of the same aggregate with the layout it has when no layout event came.
C8_ClearedLayoutAbsent ==
    (sent.cleared /\ TryInto(state).ok) =>
        /\ Projection(state, tags).layout = None
        /\ Projection(state, tags) =
               Projection([ state EXCEPT !.layout = StateDefault.layout ], tags)

C8_Witness == sent.cleared /\ TryInto(state).ok

RECURSIVE BitsValue(_, _, _)
\* the number whose bit i - from is v[i + 1], for from <= i < to
BitsValue(v, from, to) ==
    IF from >= to \/ from >= Len(v) THEN 0
    ELSE (IF v[from + 1] THEN 1 ELSE 0) + 2 * BitsValue(v, from + 1, to)

\* an array of booleans read back as a u32, element i being bit i
BitsToU32(v) == U32(BitsValue(v, HalfWidth, BitWidth), BitsValue(v, 0, HalfWidth))

\* C9: projecting is idempotent: a printed tag array, read back as a bit-set
\* and projected to --tags booleans again, is the same array.
C9_ProjectionIdempotent ==
    IsSome(lastOut) =>
        /\ Truncate(ViewBits(BitsToU32(Line.focused)), tags) = Line.focused
        /\ Truncate(ViewBits(BitsToU32(Line.urgent)), tags) = Line.urgent

C9_Witness ==
    /\ IsSome(lastOut)
    /\ tags = 12
    /\ sent.urgent = Some(U32(32768, 770))
    /\ BitsToU32(Line.urgent) = U32(0, 770)

\* C10: a transport failure stops the loop in that very step, and neither
\* that step nor any later one prints a line or alters what was printed.
C10_TransportFailureFatal ==
    [][ ~connOk' => (pc' = "failed" /\ emitted' = emitted /\ lastOut' = lastOut) ]_vars

C10_Witness == ~connOk /\ pc = "failed" /\ emitted >= 1

\* C11 as stated: a bound handle is never unbound and never replaced: once
\* status_manager, seat or output is Some, no step changes that field.
C11_BindingMonotonic ==
    [][ /\ IsSome(state.status_manager) => state'.status_manager = state.status_manager
        /\ IsSome(state.seat) => state'.seat = state.seat
        /\ IsSome(state.output) => state'.output = state.output ]_vars

\* C12: every step that dispatches a field-update event leaves the dirty
\* flag true, whatever the flag and the stored value were before: the flag
\* is true whenever the count of such events rises, and in every state in
\* which one was dispatched since the last line.
C12_FieldEventSetsDirty ==
    /\ [][ (pc = "dispatch" /\ pendingField' > pendingField) => state'.changed ]_vars
    /\ [](pendingField > 0 => state.changed)

\* one field-update event since the last line, and every value still equals
\* the printed one: the event re-sent a stored value while the flag was false
C12_Witness ==
    /\ emitted >= 1
    /\ pendingField = 1
    /\ state.changed
    /\ Some(Line.title) = sent.title
    /\ Some(Line.mode) = sent.mode
    /\ Line.layout = sent.layout
    /\ Line.focused = Truncate(Unwrap(state.focused), tags)
    /\ Line.urgent = Truncate(Unwrap(state.urgent), tags)

\* C13 as stated: after the first line the dirty flag is true only if a
\* field-update event was dispatched since the last line.
C13_DirtyOnlyByFieldEvents ==
    (emitted >= 1 /\ state.changed) => pendingField > 0

\* C14: a line is printed only in a state where the dirty flag is true, the
\* flag is false right after, at most one line is printed per step and the
\* loop then has to dispatch again; the flag is raised only inside a
\* dispatch round, so a round lies between any two lines.
C14_EmitOnlyWhenDirty ==
    [][ /\ emitted' # emitted =>
              /\ state.changed
              /\ ~state'.changed
              /\ emitted' = emitted + 1
              /\ WhileCond(state')
        /\ (~state.changed /\ state'.changed) => (pc = "dispatch" /\ emitted' = emitted)
      ]_vars

C14_Witness == watch /\ emitted = 2 /\ ~state.changed /\ pc = "gate"

Manager == "zriver_status_manager_v1"

\* the step dispatches the advertisement of a status manager
ManagerStep ==
    /\ Len(advertised') = Len(advertised) + 1
    /\ advertised'[Len(advertised')] = Manager

OutputBeforeManager ==
    \E i, j \in DOMAIN advertised :
        i < j /\ advertised[i] = "wl_output" /\ advertised[j] = Manager

\* C15: the step that dispatches the status-manager advertisement while an
\* output is bound requests no output-status object, only the seat-status of
\* a bound seat; and with one advertisement per interface an output
\* advertised before the manager has no output-status object.
C15_NoOutputRetry ==
    /\ [][ (ManagerStep /\ IsSome(state.output)) =>
               requests' = requests \o
                   (IF IsSome(state.seat)
                    THEN << SeatStatusReq(Len(advertised'), Unwrap(state.seat)) >>
                    ELSE << >>) ]_vars
    /\ []( (CountAdvertised(Manager) = 1 /\ CountAdvertised("wl_output") = 1
              /\ OutputBeforeManager)
           => CountRequests("get_river_output_status") = 0 )

C15_Witness ==
    /\ OneOfEach
    /\ OutputBeforeManager
    /\ CountRequests("get_river_output_status") = 0
    /\ CountRequests("get_river_seat_status") = 1

\* C16: no status-object request is issued twice for the same pair of
\* status-manager handle and seat (output) handle.
C16_RequestOncePerPair ==
    \A i, j \in DOMAIN requests : i # j => requests[i] # requests[j]

C16_Witness ==
    /\ CountRequests("get_river_seat_status") >= 2
    /\ CountAdvertised(Manager) = 1

\* C17: title, mode, focused and urgent are never returned to None, so the
\* aggregate stays ready once it is.
C17_CompletenessMonotonic ==
    [][ /\ IsSome(state.title) => IsSome(state'.title)
        /\ IsSome(state.mode) => IsSome(state'.mode)
        /\ IsSome(state.focused) => IsSome(state'.focused)
        /\ IsSome(state.urgent) => IsSome(state'.urgent)
        /\ Ready(state) => Ready(state') ]_vars

C17_Witness == Ready(state) /\ sent.cleared /\ sent.title = Some("") /\ emitted >= 1

\* C18: a line is printed only once the status manager, a seat and an output
\* are bound and a seat-status and an output-status object were requested;
\* as long as no status manager was advertised nothing is printed.
C18_EmitOnlyWhenBound ==
    /\ emitted >= 1 =>
          /\ IsSome(state.status_manager) /\ IsSome(state.seat) /\ IsSome(state.output)
          /\ CountRequests("get_river_seat_status") >= 1
          /\ CountRequests("get_river_output_status") >= 1
    /\ CountAdvertised(Manager) = 0 => (emitted = 0 /\ pc \in {"gate", "dispatch", "failed"})

C18_Witness ==
    /\ emitted >= 1
    /\ OneOfEach
    /\ CountRequests("get_river_seat_status") = 1
    /\ CountRequests("get_river_output_status") = 1

\* C19: a line is printed only at the head of the loop, never inside a
\* dispatch round; it is the projection of the aggregate as the finished
\* round left it; and after it the loop has to dispatch again, so the events
\* of one round share at most one line.
C19_EmitBetweenRounds ==
    [][ /\ emitted' # emitted =>
              /\ pc = "gate" /\ inRound = 0
              /\ lastOut' = Some(Projection(state, tags))
              /\ WhileCond(state') /\ pc' # "dispatch"
        /\ pc = "dispatch" => (emitted' = emitted /\ lastOut' = lastOut) ]_vars

\* inside a round of two field-update events that opens the gate
C19_Witness ==
    /\ pc = "dispatch" /\ inRound = 2 /\ pendingField = 2
    /\ emitted = 1
    /\ ~WhileCond(state)

\* C20: every printed line has a layout, no line is printed while the stored
\* layout is None, and so nothing is printed after a LayoutNameClear until
\* a LayoutName event was dispatched.
C20_EmittedLayoutPresent ==
    /\ [](IsSome(lastOut) => IsSome(Line.layout))
    /\ [][ IsNone(state.layout) => (emitted' = emitted /\ lastOut' = lastOut) ]_vars

C20_Witness ==
    /\ watch /\ emitted >= 1
    /\ sent.cleared /\ IsNone(state.layout)
    /\ pendingField = MaxPending
    /\ pc = "gate" /\ state.changed
====
